---- MODULE Spec2Model ----
(***************************************************************************)
(* The solve-and-verify loop of backend/agent_core.py together with the    *)
(* sandbox call of backend/code_executor/executor.py and the on-disk       *)
(* solution cache, as a state machine.                                     *)
(*                                                                         *)
(* Texts are sequences of tokens.  A Python value that may be None is a    *)
(* record: None, or Some(v).  Each caller of solve_challenge_core is a     *)
(* thread; the only state threads share is the directory of record files.  *)
(*                                                                         *)
(* Around that loop: execute_code step by step with the staging            *)
(* directories it leaves on disk, the registry of backend/app.py with its  *)
(* submit and status handlers, and the pure functions applied to inputs    *)
(* drawn from bounded sets.                                                *)
(***************************************************************************)
EXTENDS Integers, Sequences, FiniteSets, TLC

VARIABLES
    cache,      \* SOLVED_CHALLENGES_DIR: fingerprint -> record file
    todo,       \* per thread: the calls of solve_challenge_core it has still to make
    frame,      \* per thread: the locals of its call of solve_challenge_core
    ghost,      \* per thread: what the call did so far (counters, the file it read)
    staging,    \* the ai_agent_code_run_<uuid> directories on disk
    xc,         \* the locals of one call of CodeExecutor.execute_code
    ongoing_challenges,     \* app.py's registry: challenge id -> entry
    http,       \* per client: the request it sends and the responses it got
    pure_call   \* one application of a pure function: its arguments, its value

coreVars == <<cache, todo, frame, ghost>>
execVars == <<staging, xc>>
appVars == <<ongoing_challenges, http>>
vars == <<cache, todo, frame, ghost, staging, xc, ongoing_challenges, http, pure_call>>

(***************************************************************************)
(* Bounds of the model.                                                    *)
(***************************************************************************)
MaxMaxAttempts == 2         \* max_attempts is drawn from 0..MaxMaxAttempts
MaxCalls == 2               \* sequential calls made by one caller
NChunks == 2                \* write() calls one json.dump is flushed in

Threads == {"t1", "t2"}

None == [some |-> FALSE]
Some(v) == [some |-> TRUE, val |-> v]

Max(a, b) == IF a >= b THEN a ELSE b
Min(a, b) == IF a <= b THEN a ELSE b

(***************************************************************************)
(* Challenges: a description and test cases; a test case is the sequence   *)
(* of its (key, value) pairs in the order the submitter wrote them.        *)
(***************************************************************************)
Challenges ==
    { [description |-> <<"add">>,
       test_cases |-> << << <<"input", "1,2">>, <<"expected_output", "3">> >> >>],
      [description |-> <<"rev">>,
       test_cases |-> << << <<"expected_output", "ba">>, <<"input", "ab">> >> >>] }

NoChallenge == [description |-> <<>>, test_cases |-> <<>>]

\* A serialisation that writes each object's pairs in the order given.
KeepKeyOrder(tc) == tc

\* json.dumps(test_cases, sort_keys=True): each object's pairs in key order
\* ("expected_output" sorts before "input").
SortKeys(tc) ==
    LET exp == SelectSeq(tc, LAMBDA p : p[1] = "expected_output")
        inp == SelectSeq(tc, LAMBDA p : p[1] = "input")
    IN  exp \o inp

RECURSIVE JsonDumpsSorted(_)
JsonDumpsSorted(tcs) ==
    IF tcs = <<>> THEN <<>>
    ELSE LET s == SortKeys(Head(tcs))
         IN  <<"{">> \o [i \in 1..(2 * Len(s)) |->
                            s[(i + 1) \div 2][IF i % 2 = 1 THEN 1 ELSE 2]]
             \o <<"}">> \o JsonDumpsSorted(Tail(tcs))

\* md5 is taken to be injective on the strings that occur: the fingerprint is
\* the hashed string itself.
get_challenge_hash(c) ==
    c.description \o <<"[">> \o JsonDumpsSorted(c.test_cases) \o <<"]">> \o <<"python">>

Hashes == {get_challenge_hash(c) : c \in Challenges}


(***************************************************************************)
(* The solution cache: one file per fingerprint.  A file's content is the  *)
(* sequence of the chunks written to it; json.dump of one record reaches   *)
(* the file in NChunks write() calls, each at the writer's own offset.     *)
(***************************************************************************)
Hole == [hole |-> TRUE]                     \* bytes no writer has written
Chunk(doc, i) == [doc |-> doc, part |-> i]

NoFile == [exists |-> FALSE, content |-> <<>>]

solved_data(c, final_code, attempts_taken) ==
    [challenge_description |-> c.description,
     test_cases |-> c.test_cases,
     final_code |-> final_code,
     attempts_taken |-> attempts_taken,
     solved_timestamp |-> "now",
     language |-> "python"]

\* The whole document of one record, as a file content.
Document(doc) == [i \in 1..NChunks |-> Chunk(doc, i)]

\* A content json.load can decode: every chunk of a document is there, in place.
Decodable(content) ==
    /\ Len(content) = NChunks
    /\ \A i \in 1..NChunks : content[i] # Hole /\ content[i].part = i

\* json.load of a decodable content.  Chunks of two writers of equal-sized
\* documents decode to a record whose leading keys (up to final_code) are the
\* first chunk's and whose trailing keys (attempts_taken on) the last chunk's.
json_load(content) ==
    IF \A i \in 1..NChunks : content[i].doc = content[1].doc
    THEN content[1].doc
    ELSE [content[1].doc EXCEPT
            !.attempts_taken = content[NChunks].doc.attempts_taken,
            !.solved_timestamp = content[NChunks].doc.solved_timestamp]

\* A lookup under a path no record is stored at.
load_wrong_path(file) == None

load_solved_challenge(file) ==
    IF file.exists
    THEN IF Decodable(file.content)
         THEN Some(json_load(file.content))
         ELSE None                          \* json.JSONDecodeError: a miss
    ELSE None

\* open(file_path, 'w'): creates or truncates.
OpenForWrite(file) == [exists |-> TRUE, content |-> <<>>]

\* One write() of chunk number pos of doc at offset pos - 1.
WriteChunk(file, doc, pos) ==
    LET n == Max(Len(file.content), pos)
    IN  [file EXCEPT !.content =
            [i \in 1..n |->
                IF i = pos THEN Chunk(doc, pos)
                ELSE IF i <= Len(file.content) THEN file.content[i]
                ELSE Hole]]

(***************************************************************************)
(* The model's replies, and the extraction of the code block.              *)
(***************************************************************************)
FencePy == "FENCE_PYTHON"   \* three backquotes, the word python and a newline
Fence == "FENCE"             \* three backquotes
Newline == "NL"

Replies ==
    { <<>>,                                             \* the empty string
      <<"prose">>,
      <<Fence, "codeA", Fence>>,                        \* a fence without the tag
      <<FencePy, "codeA">>,                             \* a fence never closed
      <<FencePy, Newline, Fence>>,                      \* an empty block
      <<FencePy, "codeA", Newline, Fence>>,
      <<"prose", FencePy, "codeB", Fence, "prose">> }

RECURSIVE lstrip(_)
lstrip(s) == IF s # <<>> /\ Head(s) = Newline THEN lstrip(Tail(s)) ELSE s

RECURSIVE rstrip(_)
rstrip(s) ==
    IF s # <<>> /\ s[Len(s)] = Newline THEN rstrip(SubSeq(s, 1, Len(s) - 1)) ELSE s

strip(s) == rstrip(lstrip(s))

\* Where three backquotes begin: at a bare fence and at a tagged one.
StartsFence(tok) == tok \in {Fence, FencePy}

\* An extraction that takes any fence for the opening one, tagged or not.
extract_any_fence(response_text) ==
    LET opens == {i \in 1..Len(response_text) : StartsFence(response_text[i])}
    IN  IF opens = {} THEN None
        ELSE LET i0 == CHOOSE i \in opens : \A k \in opens : i <= k
                 closes == {j \in (i0 + 1)..Len(response_text) :
                                StartsFence(response_text[j])}
             IN  IF closes = {} THEN None
                 ELSE LET j0 == CHOOSE j \in closes : \A k \in closes : j <= k
                      IN  Some(strip(SubSeq(response_text, i0 + 1, j0 - 1)))

\* re.search of the tagged fence, the shortest text after it, and three
\* backquotes (DOTALL); group 1, stripped.
extract_python_code(response_text) ==
    LET opens == {i \in 1..Len(response_text) : response_text[i] = FencePy}
    IN  IF opens = {} THEN None
        ELSE LET i0 == CHOOSE i \in opens : \A k \in opens : i <= k
                 closes == {j \in (i0 + 1)..Len(response_text) :
                                StartsFence(response_text[j])}
             IN  IF closes = {} THEN None
                 ELSE LET j0 == CHOOSE j \in closes : \A k \in closes : j <= k
                      IN  Some(strip(SubSeq(response_text, i0 + 1, j0 - 1)))

\* Python's truth test of an optional text: None and the empty string are false.
Falsy(x) == ~x.some \/ x.val = <<>>

\* Python's truth test of an optional JSON object: None and {} are false.
Truthy(x) == x.some /\ DOMAIN x.val # {}

\* The keys solve_challenge_core subscripts a loaded record with.
CachedKeys == {"final_code", "attempts_taken"}


(***************************************************************************)
(* Execution reports and the failure summary.                              *)
(***************************************************************************)
TestResult(n, passed, error) ==
    [test_number |-> n, input |-> "in", expected_output |-> "exp",
     actual_output |-> IF passed THEN "exp" ELSE "act",
     passed |-> passed, error |-> error]

Report(success, output, error_message, exception_type, test_results) ==
    [success |-> success, output |-> output, error_message |-> error_message,
     exception_type |-> exception_type, test_results |-> test_results]

\* The reports the runner script may print as JSON.
RunnerReports ==
    { Report(TRUE, "", "None", "None",
             <<TestResult(1, TRUE, ""), TestResult(2, TRUE, "")>>),
      Report(FALSE, "printed", "None", "None",
             <<TestResult(1, TRUE, ""), TestResult(2, FALSE, "")>>),
      Report(FALSE, "", "None", "None",
             <<TestResult(1, FALSE, "raised"), TestResult(2, FALSE, ""),
               TestResult(3, FALSE, "")>>) }

\* The reports execute_code builds itself.
DockerExecutionError(raw_output) ==
    Report(FALSE, raw_output, "runner output was not valid JSON",
           "DockerExecutionError", <<>>)
DockerNotFound == Report(FALSE, "", "Docker command not found", "DockerNotFound", <<>>)
UnexpectedError(exception_type) ==
    Report(FALSE, "", "An unexpected error occurred during Docker execution",
           exception_type, <<>>)

max_detailed_failures == 2

RECURSIVE FormatFailures(_, _, _)
FormatFailures(failing_tests, i, max_detailed) ==
    IF i > Len(failing_tests) THEN <<>>
    ELSE LET r == failing_tests[i]
         IN  IF i - 1 < max_detailed
             THEN << [line |-> "FAILED", test_number |-> r.test_number],
                     [line |-> "Input", input |-> r.input],
                     [line |-> "Expected, Actual", expected |-> r.expected_output,
                      actual |-> r.actual_output] >>
                  \o (IF r.error # "" THEN <<[line |-> "Error", error |-> r.error]>>
                      ELSE <<>>)
                  \o FormatFailures(failing_tests, i + 1, max_detailed)
             ELSE LET remaining_failures == Len(failing_tests) - (i - 1)
                  IN  IF remaining_failures > 0
                      THEN <<[line |-> "more tests failed",
                              count |-> remaining_failures]>>
                      ELSE FormatFailures(failing_tests, i + 1, max_detailed)

AllPassedSentence == <<[line |-> "All provided tests passed."]>>

\* A summary of all the results, the passing ones too.
format_all_results(test_results, max_detailed) ==
    IF test_results = <<>> THEN AllPassedSentence
    ELSE FormatFailures(test_results, 1, max_detailed)

format_test_results_for_llm(test_results, max_detailed) ==
    LET failing_tests == SelectSeq(test_results, LAMBDA r : r.passed = FALSE)
    IN  IF failing_tests = <<>> THEN AllPassedSentence
        ELSE FormatFailures(failing_tests, 1, max_detailed)

(***************************************************************************)
(* Prompts and the bounded conversational history.                         *)
(***************************************************************************)
FreshPrompt(c) ==
    [template |-> "fresh", description |-> c.description, test_cases |-> c.test_cases]

RepairPrompt(c, code, report) ==
    [template |-> "repair", description |-> c.description, code |-> code,
     summary |-> format_test_results_for_llm(report.test_results,
                                             max_detailed_failures)]

current_prompt(c, k, code, report) ==
    IF k = 1 THEN FreshPrompt(c) ELSE RepairPrompt(c, code.val, report.val)

UserTurn(prompt) == [role |-> "user", text |-> prompt]
ModelTurn(reply) == [role |-> "model", text |-> [reply |-> reply]]

HistoryMaxLen == 3

\* A list that keeps every turn.
ListAppend(history, turn) == Append(history, turn)

\* A window of two turns: the newest turn and the one before it.
DequeAppendTwo(history, turn) ==
    IF history = <<>> THEN <<turn>> ELSE <<history[Len(history)], turn>>

\* deque(maxlen=3).append: the oldest turn falls out on the left.
DequeAppend(history, turn) ==
    LET h == Append(history, turn)
    IN  IF Len(h) > HistoryMaxLen THEN SubSeq(h, Len(h) - HistoryMaxLen + 1, Len(h))
        ELSE h

(***************************************************************************)
(* The values solve_challenge_core returns.                                *)
(***************************************************************************)
MsgGateway == "Failed to get response from Gemini API."
MsgNoCode == "No valid Python code block found in Gemini's response."
MsgUnexpected == "An unexpected state occurred in solve_challenge_core."

NoResult == [status |-> "none"]

\* A cached result that counts the lookup as its one attempt.
CachedResultOneAttempt(existing_solution) ==
    [status |-> "solved", final_code |-> existing_solution.final_code,
     attempts_taken |-> 1,
     message |-> "Challenge already solved, loaded from disk."]

CachedResult(existing_solution) ==
    [status |-> "solved", final_code |-> existing_solution.final_code,
     attempts_taken |-> existing_solution.attempts_taken,
     message |-> "Challenge already solved, loaded from disk."]

SolvedResult(code, k) ==
    [status |-> "solved", final_code |-> code, attempts_taken |-> k,
     message |-> "Challenge successfully solved."]

ErrorResult(message) == [status |-> "error", message |-> message]

error_details(execution_report) ==
    [message |-> "Code failed tests.",
     error_message |-> execution_report.error_message,
     exception_type |-> execution_report.exception_type,
     test_results |-> execution_report.test_results]

FailedResult(code, k, execution_report) ==
    [status |-> "failed", final_code |-> code, attempts_taken |-> k,
     error_details |-> error_details(execution_report),
     message |-> "Challenge could not be solved within max attempts."]

(***************************************************************************)
(* The environment: what one HTTP request of the gateway and one run of    *)
(* the sandbox may do.                                                     *)
(***************************************************************************)
max_retries == 5

HttpOutcomes ==
    { [kind |-> k, text |-> <<>>] :
        k \in {"RequestException", "JSONDecodeError", "no candidates", "part without text"} }
    \cup { [kind |-> "text", text |-> r] : r \in Replies }

Stdouts ==
    { [json |-> "object", report |-> r] : r \in RunnerReports }
    \cup { [json |-> "invalid", report |-> DockerExecutionError("garbage")],
           [json |-> "scalar", report |-> DockerExecutionError("0")] }

NoProc == [kind |-> "none", terminates |-> FALSE]

\* The staging directory cannot be filled, the docker executable is missing, or
\* the container starts; the candidate code decides whether it ever exits.
SandboxBehaviours ==
    { [kind |-> "prepare failed", terminates |-> FALSE],
      [kind |-> "docker missing", terminates |-> FALSE] }
    \cup { [kind |-> "docker run", terminates |-> b] : b \in BOOLEAN }

(***************************************************************************)
(* The state of one caller.                                                *)
(***************************************************************************)
IdleFrame ==
    [pc |-> "idle",
     challenge |-> NoChallenge,
     max_attempts |-> 0,
     attempt |-> 0,
     chat_history |-> <<>>,
     retry_attempt |-> 0,
     gemini_response |-> None,
     last_generated_code |-> None,
     proc |-> NoProc,
     last_execution_report |-> None,
     wpos |-> 0,
     exception |-> "none",
     result |-> NoResult]

NoPrev == [status |-> "none"]

IdleGhost(prev) ==
    [llm_calls |-> 0, sandbox_runs |-> 0, saves |-> 0, seen |-> NoFile,
     requests |-> 0, turns |-> <<>>, prev |-> prev]

challenge_hash(f) == get_challenge_hash(f.challenge)

\* The top of one iteration of the for loop, up to the call of call_gemini_api.
StartAttempt(f, k) ==
    [f EXCEPT
        !.attempt = k,
        !.chat_history =
            DequeAppend(f.chat_history,
                        UserTurn(current_prompt(f.challenge, k, f.last_generated_code,
                                                f.last_execution_report))),
        !.retry_attempt = 0,
        !.gemini_response = None,
        !.pc = "gateway"]

\* A loop that tests its bound after the body: a first iteration in any case.
EnterLoopAtLeastOnce(f) == StartAttempt(f, 1)

\* The loop's range(1, max_attempts + 1): a first iteration, or none at all.
EnterLoop(f) ==
    IF 1 < f.max_attempts + 1 THEN StartAttempt(f, 1)
    ELSE [f EXCEPT !.pc = "done", !.result = ErrorResult(MsgUnexpected)]

\* A loop that aborts on None only, and takes the empty string for a reply.
AfterGatewayNoneOnly(f, response) ==
    IF ~response.some
    THEN [f EXCEPT !.gemini_response = response, !.pc = "done",
                   !.result = ErrorResult(MsgGateway)]
    ELSE LET code == extract_python_code(response.val)
             f1 == [f EXCEPT !.gemini_response = response,
                             !.chat_history =
                                 DequeAppend(f.chat_history, ModelTurn(response.val)),
                             !.last_generated_code = code]
         IN  IF Falsy(code)
             THEN [f1 EXCEPT !.pc = "done", !.result = ErrorResult(MsgNoCode)]
             ELSE [f1 EXCEPT !.pc = "exec"]

\* From call_gemini_api's return to the call of execute_code.
AfterGateway(f, response) ==
    IF Falsy(response)
    THEN [f EXCEPT !.gemini_response = response, !.pc = "done",
                   !.result = ErrorResult(MsgGateway)]
    ELSE LET code == extract_python_code(response.val)
             f1 == [f EXCEPT !.gemini_response = response,
                             !.chat_history =
                                 DequeAppend(f.chat_history, ModelTurn(response.val)),
                             !.last_generated_code = code]
         IN  IF Falsy(code)
             THEN [f1 EXCEPT !.pc = "done", !.result = ErrorResult(MsgNoCode)]
             ELSE [f1 EXCEPT !.pc = "exec"]

\* A loop that runs once more than max_attempts.
MayRetryOffByOne(f) == f.attempt <= f.max_attempts

\* Whether another iteration follows a failed report.
MayRetry(f) == f.attempt < f.max_attempts

\* A loop that stores the code of every report, passed or not.
AfterReportSaveAlways(f, execution_report) ==
    [f EXCEPT !.last_execution_report = Some(execution_report),
              !.proc = NoProc,
              !.pc = "save_open"]

\* From execute_code's return to the next blocking call or the return.
AfterReport(f, execution_report) ==
    LET f1 == [f EXCEPT !.last_execution_report = Some(execution_report),
                        !.proc = NoProc]
    IN  IF execution_report.success
        THEN [f1 EXCEPT !.pc = "save_open"]
        ELSE IF MayRetry(f)
             THEN StartAttempt(f1, f.attempt + 1)
             ELSE [f1 EXCEPT !.pc = "done",
                             !.result = FailedResult(f.last_generated_code.val,
                                                     f.attempt, execution_report)]

\* The requests.post calls of the current call of call_gemini_api, one more.
Requested(g, f) == [g EXCEPT !.requests = IF f.retry_attempt = 0 THEN 1 ELSE @ + 1]

\* Every turn the call has appended to chat_history, oldest first.
Logged(g, f, f2) ==
    [g EXCEPT !.turns =
        IF f2.pc = "gateway" /\ f.pc # "gateway"
        THEN Append(@, UserTurn(current_prompt(f2.challenge, f2.attempt,
                                               f2.last_generated_code,
                                               f2.last_execution_report)))
        ELSE IF f.pc = "gateway" /\ f2.pc # "gateway" /\ ~Falsy(f2.gemini_response)
             THEN Append(@, ModelTurn(f2.gemini_response.val))
        ELSE @]

\* The counters of a step from frame f to frame f2.
Counted(g, f, f2) ==
    [Logged(g, f, f2) EXCEPT
        !.llm_calls = @ + (IF f2.pc = "gateway" /\ f.pc # "gateway" THEN 1 ELSE 0),
        !.saves = @ + (IF f2.pc = "save_open" /\ f.pc # "save_open" THEN 1 ELSE 0)]

(***************************************************************************)
(* The actions.  Each is one step of thread t: from one blocking call (or  *)
(* the function's entry) to the next blocking call or the return.          *)
(***************************************************************************)

\* solve_challenge_core is entered: the fingerprint, the cache lookup and, on a
\* miss, the first prompt.
Call(t) ==
    /\ frame[t].pc = "idle"
    /\ todo[t].calls > 0
    /\ \E inp \in todo[t].inputs :
        LET f0 == [IdleFrame EXCEPT !.challenge = inp[1], !.max_attempts = inp[2]]
            file == cache[challenge_hash(f0)]
            existing_solution == load_solved_challenge(file)
            f2 == IF Truthy(existing_solution)
                  THEN IF CachedKeys \subseteq DOMAIN existing_solution.val
                       THEN [f0 EXCEPT !.pc = "done",
                                       !.result = CachedResult(existing_solution.val)]
                       ELSE [f0 EXCEPT !.pc = "raised", !.exception = "KeyError"]
                  ELSE EnterLoop(f0)
        IN  /\ frame' = [frame EXCEPT ![t] = f2]
            /\ ghost' = [ghost EXCEPT
                            ![t] = Counted([IdleGhost(ghost[t].prev) EXCEPT !.seen = file],
                                           f0, f2)]
    /\ todo' = [todo EXCEPT ![t].calls = @ - 1]
    /\ UNCHANGED <<cache, execVars, appVars, pure_call>>

\* One requests.post of call_gemini_api and what follows it.  (The history the
\* loop passes is always a list of role/parts dictionaries, so the ValueError
\* of the argument check is never raised.)
GatewayRequest(t) ==
    /\ frame[t].pc = "gateway"
    /\ \E o \in HttpOutcomes :
        LET f == frame[t]
            f2 == IF o.kind = "text" THEN AfterGateway(f, Some(o.text))
                  ELSE IF o.kind = "part without text"
                       THEN [f EXCEPT !.pc = "raised", !.exception = "KeyError"]
                  ELSE IF f.retry_attempt < max_retries - 1
                       THEN [f EXCEPT !.retry_attempt = @ + 1]  \* sleep, retry
                  ELSE AfterGateway(f, None)
        IN  /\ frame' = [frame EXCEPT ![t] = f2]
            /\ ghost' = [ghost EXCEPT ![t] = Counted(Requested(@, f), f, f2)]
    /\ UNCHANGED <<cache, todo, execVars, appVars, pure_call>>

\* execute_code up to subprocess.run: an OSError while the staging directory is
\* filled, FileNotFoundError for the docker executable, or the container starts.
ExecuteCode(t) ==
    /\ frame[t].pc = "exec"
    /\ \E b \in SandboxBehaviours :
        LET f == frame[t]
            f2 == IF b.kind = "prepare failed"
                  THEN AfterReport(f, UnexpectedError("OSError"))
                  ELSE IF b.kind = "docker missing"
                       THEN AfterReport(f, DockerNotFound)
                  ELSE [f EXCEPT !.pc = "sandbox", !.proc = b]
        IN  /\ frame' = [frame EXCEPT ![t] = f2]
            /\ ghost' = [ghost EXCEPT
                            ![t] = Counted([@ EXCEPT !.sandbox_runs = @ + 1], f, f2)]
    /\ UNCHANGED <<cache, todo, execVars, appVars, pure_call>>

\* subprocess.run returns: the container has exited and its stdout is parsed.
\* No timeout is passed, so nothing else ends the wait.
SandboxExit(t) ==
    /\ frame[t].pc = "sandbox"
    /\ frame[t].proc.terminates
    /\ \E out \in Stdouts :
        LET f == frame[t]
            f2 == IF out.json = "scalar"
                  THEN [f EXCEPT !.pc = "raised", !.proc = NoProc,
                                 !.exception = "TypeError"]
                  ELSE AfterReport(f, out.report)
        IN  /\ frame' = [frame EXCEPT ![t] = f2]
            /\ ghost' = [ghost EXCEPT ![t] = Counted(@, f, f2)]
    /\ UNCHANGED <<cache, todo, execVars, appVars, pure_call>>

\* save_solved_challenge: open(file_path, 'w') truncates the file, or raises
\* (the exception is printed and the function returns).
SaveOpen(t) ==
    /\ frame[t].pc = "save_open"
    /\ LET f == frame[t]
           h == challenge_hash(f)
           returned == [f EXCEPT !.pc = "done",
                                 !.result = SolvedResult(f.last_generated_code.val,
                                                         f.attempt)]
       IN  \E ok \in BOOLEAN :
            IF ok
            THEN /\ cache' = [cache EXCEPT ![h] = OpenForWrite(@)]
                 /\ frame' = [frame EXCEPT ![t] = [f EXCEPT !.pc = "save_write",
                                                            !.wpos = 0]]
            ELSE /\ cache' = cache
                 /\ frame' = [frame EXCEPT ![t] = returned]
    /\ UNCHANGED <<todo, ghost, execVars, appVars, pure_call>>

\* save_solved_challenge: one write() of json.dump, or its failure; after the
\* last one the file is closed and solve_challenge_core returns.
SaveWrite(t) ==
    /\ frame[t].pc = "save_write"
    /\ LET f == frame[t]
           h == challenge_hash(f)
           doc == solved_data(f.challenge, f.last_generated_code.val, f.attempt)
           returned == [f EXCEPT !.pc = "done", !.wpos = 0,
                                 !.result = SolvedResult(f.last_generated_code.val,
                                                         f.attempt)]
       IN  \E ok \in BOOLEAN :
            IF ok
            THEN /\ cache' = [cache EXCEPT ![h] = WriteChunk(@, doc, f.wpos + 1)]
                 /\ frame' = [frame EXCEPT
                                ![t] = IF f.wpos + 1 = NChunks THEN returned
                                       ELSE [f EXCEPT !.wpos = @ + 1]]
            ELSE /\ cache' = cache
                 /\ frame' = [frame EXCEPT ![t] = returned]
    /\ UNCHANGED <<todo, ghost, execVars, appVars, pure_call>>

\* What a caller keeps of a finished call.
Outcome(f, file) ==
    LET has_code == f.pc = "done" /\ f.result.status \in {"solved", "failed"}
    IN  [challenge |-> f.challenge,
         status |-> IF f.pc = "raised" THEN "raised" ELSE f.result.status,
         final_code |-> IF has_code THEN f.result.final_code ELSE <<>>,
         attempts_taken |-> IF has_code THEN f.result.attempts_taken ELSE 0,
         stored |-> /\ has_code
                    /\ load_solved_challenge(file) =
                         Some(solved_data(f.challenge, f.result.final_code,
                                          f.result.attempts_taken))]

\* The caller takes the returned value (or the exception).
Return(t) ==
    /\ frame[t].pc \in {"done", "raised"}
    /\ frame' = [frame EXCEPT ![t] = IdleFrame]
    /\ ghost' = [ghost EXCEPT
                    ![t] = IdleGhost(Outcome(frame[t],
                                             cache[challenge_hash(frame[t])]))]
    /\ UNCHANGED <<cache, todo, execVars, appVars, pure_call>>

ThreadStep(t) ==
    \/ Call(t)
    \/ GatewayRequest(t)
    \/ ExecuteCode(t)
    \/ SandboxExit(t)
    \/ SaveOpen(t)
    \/ SaveWrite(t)
    \/ Return(t)

Next == \E t \in Threads : ThreadStep(t)

(***************************************************************************)
(* CodeExecutor.execute_code, step by step, with the staging directories   *)
(* it creates.  The uuid4 of an invocation is the invocation's number.     *)
(***************************************************************************)
MaxRuns == 3                \* invocations of execute_code

RunIds == 1..MaxRuns

NoDir == [exists |-> FALSE, files |-> {}]

Languages == {"python", "ruby"}

UnsupportedLanguage ==
    Report(FALSE, "", "Only 'python' language is supported", "UnsupportedLanguage", <<>>)

\* What execute_code returns: a JSON object (a report) or another JSON value.
ReportValue(report) == [json |-> "object", report |-> report]

\* json.loads(raw_output) and the JSONDecodeError handler around it.
LoadedReport(out) ==
    IF out.json = "invalid" THEN ReportValue(out.report)
    ELSE IF out.json = "scalar" THEN [json |-> "scalar", value |-> "0"]
    ELSE out

IdleExec ==
    [pc |-> "idle",
     language |-> "python",
     unique_id |-> 0,
     temp_dir |-> None,
     proc |-> NoProc,
     ret |-> None,
     runs |-> 0]

\* Where _prepare_temp_directory may raise, and the directory it leaves then.
PrepareFailures ==
    {"none", "makedirs", "write code", "runner missing", "copy runner", "write test cases"}

PreparedDir(fail_at) ==
    IF fail_at = "makedirs" THEN NoDir
    ELSE [exists |-> TRUE,
          files |-> IF fail_at = "write code" THEN {}
                    ELSE IF fail_at \in {"runner missing", "copy runner"}
                         THEN {"generated_code.py"}
                    ELSE IF fail_at = "write test cases"
                         THEN {"generated_code.py", "runner.py"}
                    ELSE {"generated_code.py", "runner.py", "test_cases.json"}]

\* The report of the except clause that catches a failure of the preparation.
PrepareFailureReport(fail_at) ==
    IF fail_at = "runner missing" THEN DockerNotFound       \* FileNotFoundError
    ELSE UnexpectedError("OSError")

\* The finally clause: _cleanup_temp_directory(temp_dir) if temp_dir is set.
cleanup_temp_directory(dirs, temp_dir) ==
    IF temp_dir.some /\ dirs[temp_dir.val].exists
    THEN [dirs EXCEPT ![temp_dir.val] = NoDir]
    ELSE dirs

\* execute_code is entered: the uuid, and the language check.
ExecEnter ==
    /\ xc.pc = "idle"
    /\ xc.runs < MaxRuns
    /\ \E language \in Languages :
        xc' = IF language # "python"
              THEN [xc EXCEPT !.pc = "returned", !.language = language,
                              !.unique_id = xc.runs + 1, !.runs = @ + 1,
                              !.temp_dir = None,
                              !.ret = Some(ReportValue(UnsupportedLanguage))]
              ELSE [xc EXCEPT !.pc = "prepare", !.language = language,
                              !.unique_id = xc.runs + 1, !.runs = @ + 1,
                              !.temp_dir = None, !.ret = None]
    /\ UNCHANGED <<staging, coreVars, appVars, pure_call>>

\* _prepare_temp_directory: it returns the path, or it raises part-way, the
\* exception is turned into a report, and the finally clause finds temp_dir unset.
Prepare ==
    /\ xc.pc = "prepare"
    /\ \E fail_at \in PrepareFailures :
        LET made == [staging EXCEPT ![xc.unique_id] = PreparedDir(fail_at)]
        IN  IF fail_at = "none"
            THEN /\ staging' = made
                 /\ xc' = [xc EXCEPT !.pc = "run", !.temp_dir = Some(xc.unique_id)]
            ELSE /\ staging' = cleanup_temp_directory(made, xc.temp_dir)
                 /\ xc' = [xc EXCEPT !.pc = "returned",
                                     !.ret = Some(ReportValue(PrepareFailureReport(fail_at)))]
    /\ UNCHANGED <<coreVars, appVars, pure_call>>

\* subprocess.run starts docker, or finds no docker executable.
RunDocker ==
    /\ xc.pc = "run"
    /\ \E b \in {x \in SandboxBehaviours : x.kind # "prepare failed"} :
        IF b.kind = "docker missing"
        THEN /\ staging' = cleanup_temp_directory(staging, xc.temp_dir)
             /\ xc' = [xc EXCEPT !.pc = "returned",
                                 !.ret = Some(ReportValue(DockerNotFound))]
        ELSE /\ staging' = staging
             /\ xc' = [xc EXCEPT !.pc = "wait", !.proc = b]
    /\ UNCHANGED <<coreVars, appVars, pure_call>>

\* The container has exited: its stdout is parsed and returned, and the finally
\* clause removes the staging directory.
ProcessExit ==
    /\ xc.pc = "wait"
    /\ xc.proc.terminates
    /\ \E out \in Stdouts :
        /\ staging' = cleanup_temp_directory(staging, xc.temp_dir)
        /\ xc' = [xc EXCEPT !.pc = "returned", !.proc = NoProc,
                            !.ret = Some(LoadedReport(out))]
    /\ UNCHANGED <<coreVars, appVars, pure_call>>

\* The caller takes the returned value.
ExecReturn ==
    /\ xc.pc = "returned"
    /\ xc' = [IdleExec EXCEPT !.runs = xc.runs]
    /\ UNCHANGED <<staging, coreVars, appVars, pure_call>>

NextExec ==
    \/ ExecEnter
    \/ Prepare
    \/ RunDocker
    \/ ProcessExit
    \/ ExecReturn

(***************************************************************************)
(* backend/app.py: the registry ongoing_challenges, the submit handler,    *)
(* the solver thread it starts, and the status handler.  The entry of a    *)
(* submission is keyed by the thread that solves it.                       *)
(***************************************************************************)
Clients == {"c1", "c2", "c3"}

NoEntry == [present |-> FALSE]

NewEntry(c, max_attempts) ==
    [present |-> TRUE,
     status |-> "pending",
     challenge |-> c,
     max_attempts |-> max_attempts,
     result |-> None]

IdleClient == [request |-> None, submitted |-> None, polled |-> None]

\* A request body, and whether its sender asks for the status afterwards.
Request(c, max_attempts, polls) ==
    [challenge |-> c, max_attempts |-> max_attempts, polls |-> polls]

\* The keys submit_challenge subscripts a loaded record with.
SubmitKeys == {"final_code", "attempts_taken", "solved_timestamp"}

\* generate_challenge_id(): one identifier per entry, here the solver's name.
RegistryId(t) == [kind |-> "registry", thread |-> t]

\* f"cached_{challenge_hash}"
CachedId(h) == [kind |-> "cached", challenge_hash |-> h]

\* The "solution" object both handlers build from a loaded record.
Solution(existing_solution) ==
    [final_code |-> existing_solution.final_code,
     attempts_taken |-> existing_solution.attempts_taken,
     solved_timestamp |-> existing_solution.solved_timestamp]

\* The 200 response both handlers give for a loaded record; subscripting a
\* record without one of the keys raises KeyError, which Flask answers with 500.
CachedResponse(h, existing_solution) ==
    IF SubmitKeys \subseteq DOMAIN existing_solution
    THEN [code |-> 200,
          challenge_id |-> CachedId(h),
          status |-> "solved",
          solution |-> Solution(existing_solution)]
    ELSE [code |-> 500, status |-> "KeyError"]

\* Contents a record file may have when a request arrives: none, a record of an
\* earlier run, a record cut short, the JSON object {}, and a JSON object that
\* is no record.
StoredFiles(c) ==
    { NoFile,
      [exists |-> TRUE, content |-> Document(solved_data(c, <<"codeA">>, 1))],
      [exists |-> TRUE, content |-> <<Chunk(solved_data(c, <<"codeA">>, 1), 1)>>],
      [exists |-> TRUE, content |-> Document([k \in {} |-> "python"])],
      [exists |-> TRUE, content |-> Document([language |-> "python"])] }

\* POST /submit_challenge with a description and test cases: the cache lookup,
\* and on a miss the new entry and the solver thread t.
Submit(cl) ==
    /\ http[cl].request.some
    /\ ~http[cl].submitted.some
    /\ LET req == http[cl].request.val
           h == get_challenge_hash(req.challenge)
           existing_solution == load_solved_challenge(cache[h])
       IN  IF Truthy(existing_solution)
           THEN /\ http' = [http EXCEPT ![cl].submitted =
                              Some(CachedResponse(h, existing_solution.val))]
                /\ UNCHANGED <<ongoing_challenges, todo>>
           ELSE \E t \in Threads :
                /\ ~ongoing_challenges[t].present
                /\ ongoing_challenges' =
                      [ongoing_challenges EXCEPT
                          ![t] = NewEntry(req.challenge, req.max_attempts)]
                /\ todo' = [todo EXCEPT
                              ![t] = [calls |-> 1,
                                      inputs |-> {<<req.challenge, req.max_attempts>>}]]
                /\ http' = [http EXCEPT
                              ![cl].submitted =
                                  Some([code |-> 202,
                                        challenge_id |-> RegistryId(t),
                                        status |-> "processing"])]
    /\ UNCHANGED <<cache, frame, ghost, execVars, pure_call>>

\* run_solver_task after solve_challenge_core has returned: the result is stored.
TaskStoreResult(t) ==
    /\ frame[t].pc = "done"
    /\ ongoing_challenges' =
          [ongoing_challenges EXCEPT ![t].result = Some(frame[t].result)]
    /\ frame' = [frame EXCEPT ![t].pc = "result stored"]
    /\ UNCHANGED <<cache, todo, ghost, http, execVars, pure_call>>

\* A thread that ends after storing the result, leaving the status as it is.
TaskLeaveStatus(t) ==
    /\ frame[t].pc = "result stored"
    /\ frame' = [frame EXCEPT ![t].pc = "finished"]
    /\ UNCHANGED <<cache, todo, ghost, appVars, execVars, pure_call>>

\* run_solver_task: then the status is stored, and the thread ends.
TaskStoreStatus(t) ==
    /\ frame[t].pc = "result stored"
    /\ ongoing_challenges' =
          [ongoing_challenges EXCEPT ![t].status = frame[t].result.status]
    /\ frame' = [frame EXCEPT ![t].pc = "finished"]
    /\ UNCHANGED <<cache, todo, ghost, http, execVars, pure_call>>

\* run_solver_task's except clause: the status is set to "error".
TaskErrorStatus(t) ==
    /\ frame[t].pc = "raised"
    /\ ongoing_challenges' = [ongoing_challenges EXCEPT ![t].status = "error"]
    /\ frame' = [frame EXCEPT ![t].pc = "error status stored"]
    /\ UNCHANGED <<cache, todo, ghost, http, execVars, pure_call>>

\* run_solver_task's except clause: then the result, and the thread ends.
TaskErrorResult(t) ==
    /\ frame[t].pc = "error status stored"
    /\ ongoing_challenges' =
          [ongoing_challenges EXCEPT
              ![t].result = Some(ErrorResult(frame[t].exception))]
    /\ frame' = [frame EXCEPT ![t].pc = "finished"]
    /\ UNCHANGED <<cache, todo, ghost, http, execVars, pure_call>>

\* get_challenge_status for an identifier: the registry entry as it is at that
\* moment; without one, the record a "cached_" identifier names; else 404.
get_challenge_status(challenge_id) ==
    IF challenge_id.kind = "registry" /\ ongoing_challenges[challenge_id.thread].present
    THEN LET challenge_info == ongoing_challenges[challenge_id.thread]
         IN  [code |-> 200,
              challenge_id |-> challenge_id,
              status |-> challenge_info.status,
              result |-> challenge_info.result]
    ELSE IF challenge_id.kind = "cached"
         THEN LET existing_solution ==
                      load_solved_challenge(cache[challenge_id.challenge_hash])
              IN  IF Truthy(existing_solution)
                  THEN CachedResponse(challenge_id.challenge_hash, existing_solution.val)
                  ELSE [code |-> 404, status |-> "not found"]
         ELSE [code |-> 404, status |-> "not found"]

\* GET /challenge_status/<challenge_id> with the identifier submit returned.
Poll(cl) ==
    /\ http[cl].request.some
    /\ http[cl].request.val.polls
    /\ http[cl].submitted.some
    /\ "challenge_id" \in DOMAIN http[cl].submitted.val
    /\ http' = [http EXCEPT ![cl].polled =
                  Some(get_challenge_status(http[cl].submitted.val.challenge_id))]
    /\ UNCHANGED <<coreVars, ongoing_challenges, execVars, pure_call>>

\* The steps of the solver thread that fills entry t.
SolverStep(t) ==
    \/ Call(t)
    \/ GatewayRequest(t)
    \/ ExecuteCode(t)
    \/ SandboxExit(t)
    \/ SaveOpen(t)
    \/ SaveWrite(t)
    \/ TaskStoreResult(t)
    \/ TaskStoreStatus(t)
    \/ TaskErrorStatus(t)
    \/ TaskErrorResult(t)

NextApp ==
    \/ \E cl \in Clients : Submit(cl)
    \/ \E cl \in Clients : Poll(cl)
    \/ \E t \in Threads : SolverStep(t)

(***************************************************************************)
(* The pure functions, applied once to arguments drawn from bounded sets.  *)
(***************************************************************************)
NoPureCall == [fn |-> "none"]

MaxResults == 3             \* length of a test_results list
MaxDetailed == 3            \* max_detailed_failures is drawn from 0..MaxDetailed

\* A result list: test i passed, failed, or failed with an error text.
ResultLists ==
    UNION { { [i \in 1..n |-> TestResult(i, k[i] = "passed",
                                         IF k[i] = "raised" THEN "raised" ELSE "")] :
                k \in [1..n -> {"passed", "failed", "raised"}] } :
            n \in 0..MaxResults }

ApplyFormat ==
    /\ pure_call.fn = "format_test_results_for_llm"
    /\ ~pure_call.ret.some
    /\ pure_call' =
          [pure_call EXCEPT
              !.ret = Some(format_test_results_for_llm(pure_call.test_results,
                                                       pure_call.max_detailed))]
    /\ UNCHANGED <<coreVars, execVars, appVars>>

MaxTests == 1               \* length of a test_cases list

HashDescriptions == {<<"add">>, <<"rev">>, <<"add", "[">>}

\* One test case, its two keys in either order.
TestCaseObjects ==
    UNION { { << <<"input", i>>, <<"expected_output", e>> >>,
              << <<"expected_output", e>>, <<"input", i>> >> } :
            i \in {"1,2", "ab"}, e \in {"3", "ba"} }

HashInputs ==
    { [description |-> d, test_cases |-> tcs] :
        d \in HashDescriptions,
        tcs \in UNION { [1..n -> TestCaseObjects] : n \in 0..MaxTests } }

ApplyHash ==
    /\ pure_call.fn = "get_challenge_hash"
    /\ ~pure_call.ret.some
    /\ pure_call' =
          [pure_call EXCEPT
              !.ret = Some(<<get_challenge_hash(pure_call.first),
                             get_challenge_hash(pure_call.second)>>)]
    /\ UNCHANGED <<coreVars, execVars, appVars>>

(***************************************************************************)
(* Initial states and specifications.                                      *)
(***************************************************************************)
NoCalls == [calls |-> 0, inputs |-> {}]

\* The executor, the registry and the pure functions at rest.
ExecIdle ==
    /\ staging = [id \in RunIds |-> NoDir]
    /\ xc = IdleExec

AppIdle ==
    /\ ongoing_challenges = [t \in Threads |-> NoEntry]
    /\ http = [cl \in Clients |-> IdleClient]

PureIdle == pure_call = NoPureCall

\* No thread is in solve_challenge_core.
FramesIdle ==
    /\ frame = [t \in Threads |-> IdleFrame]
    /\ ghost = [t \in Threads |-> IdleGhost(NoPrev)]

InitState ==
    /\ cache = [h \in Hashes |-> NoFile]
    /\ FramesIdle
    /\ ExecIdle
    /\ AppIdle
    /\ PureIdle

\* One caller makes MaxCalls calls solve(S, n), one after the other, for some
\* challenge S and some max_attempts n.
Init ==
    /\ InitState
    /\ \E c \in Challenges, n \in 0..MaxMaxAttempts :
        todo = [t \in Threads |->
                  IF t = "t1" THEN [calls |-> MaxCalls, inputs |-> {<<c, n>>}]
                  ELSE NoCalls]

Spec == Init /\ [][Next]_vars

ConcMaxAttempts == 1

\* Every thread makes one call, all at the same time, of the same challenge or
\* of different ones.
InitConc ==
    /\ InitState
    /\ \E cs \in [Threads -> Challenges] :
        todo = [t \in Threads |->
                  [calls |-> 1, inputs |-> {cs[t]} \X (1..ConcMaxAttempts)]]

SpecConc == InitConc /\ [][Next]_vars

\* The sequential callers again, each thread scheduled fairly: a thread that can
\* take a step takes one.  A container that never exits enables no step.
FairSpec == Init /\ [][Next]_vars /\ \A t \in Threads : WF_vars(ThreadStep(t))

\* One caller makes one call; the record file of its challenge is what earlier
\* runs of the server, or anything else writing to the directory, left there.
InitStored ==
    /\ FramesIdle
    /\ ExecIdle
    /\ AppIdle
    /\ PureIdle
    /\ \E c \in Challenges, n \in 0..MaxMaxAttempts :
        /\ todo = [t \in Threads |->
                     IF t = "t1" THEN [calls |-> 1, inputs |-> {<<c, n>>}]
                     ELSE NoCalls]
        /\ \E file \in StoredFiles(c) :
              cache = [h \in Hashes |->
                         IF h = get_challenge_hash(c) THEN file ELSE NoFile]

SpecStored == InitStored /\ [][Next]_vars

HistoryAttempts == 3        \* max_attempts of the call whose history is followed

\* One caller makes one call with max_attempts = HistoryAttempts.
InitHistory ==
    /\ InitState
    /\ \E c \in Challenges :
        todo = [t \in Threads |->
                  IF t = "t1" THEN [calls |-> 1, inputs |-> {<<c, HistoryAttempts>>}]
                  ELSE NoCalls]

SpecHistory == InitHistory /\ [][Next]_vars

\* execute_code is called MaxRuns times, one call after the other.
InitExec ==
    /\ cache = [h \in Hashes |-> NoFile]
    /\ todo = [t \in Threads |-> NoCalls]
    /\ FramesIdle
    /\ ExecIdle
    /\ AppIdle
    /\ PureIdle

SpecExec == InitExec /\ [][NextExec]_vars

AppMaxAttempts == 1

\* One client submits one challenge and polls its status.
InitApp ==
    /\ todo = [t \in Threads |-> NoCalls]
    /\ FramesIdle
    /\ ExecIdle
    /\ PureIdle
    /\ ongoing_challenges = [t \in Threads |-> NoEntry]
    /\ \E c \in Challenges, n \in 1..AppMaxAttempts :
        /\ http = [cl \in Clients |->
                     IF cl = "c1"
                     THEN [IdleClient EXCEPT !.request = Some(Request(c, n, TRUE))]
                     ELSE IdleClient]
        /\ \E file \in StoredFiles(c) :
              cache = [h \in Hashes |->
                         IF h = get_challenge_hash(c) THEN file ELSE NoFile]

SpecApp == InitApp /\ [][NextApp]_vars

\* The same, each solver thread scheduled fairly: a thread that can take a step
\* takes one.  A container that never exits enables no step.
FairSpecApp ==
    InitApp /\ [][NextApp]_vars /\ \A t \in Threads : WF_vars(SolverStep(t))

\* Two submissions of one challenge, not solved before, have been accepted and
\* their solver threads started; a third client submits the same challenge at
\* any moment and asks for the status of what its submission returned.
InitAppConc ==
    /\ cache = [h \in Hashes |-> NoFile]
    /\ FramesIdle
    /\ ExecIdle
    /\ PureIdle
    /\ \E c \in Challenges :
        /\ todo = [t \in Threads |->
                     [calls |-> 1, inputs |-> {<<c, AppMaxAttempts>>}]]
        /\ ongoing_challenges = [t \in Threads |-> NewEntry(c, AppMaxAttempts)]
        /\ http = [cl \in Clients |->
                     IF cl = "c1"
                     THEN [IdleClient EXCEPT
                             !.request = Some(Request(c, AppMaxAttempts, FALSE)),
                             !.submitted = Some([code |-> 202,
                                                 challenge_id |-> RegistryId("t1"),
                                                 status |-> "processing"])]
                     ELSE IF cl = "c2"
                     THEN [IdleClient EXCEPT
                             !.request = Some(Request(c, AppMaxAttempts, FALSE)),
                             !.submitted = Some([code |-> 202,
                                                 challenge_id |-> RegistryId("t2"),
                                                 status |-> "processing"])]
                     ELSE [IdleClient EXCEPT
                             !.request = Some(Request(c, AppMaxAttempts, TRUE))]]

SpecAppConc == InitAppConc /\ [][NextApp]_vars

\* format_test_results_for_llm(test_results, max_detailed) for one result list
\* and one max_detailed.
InitFormat ==
    /\ cache = [h \in Hashes |-> NoFile]
    /\ todo = [t \in Threads |-> NoCalls]
    /\ FramesIdle
    /\ ExecIdle
    /\ AppIdle
    /\ \E test_results \in ResultLists, max_detailed \in 0..MaxDetailed :
        pure_call = [fn |-> "format_test_results_for_llm",
                     test_results |-> test_results,
                     max_detailed |-> max_detailed,
                     ret |-> None]

SpecFormat == InitFormat /\ [][ApplyFormat]_vars

\* get_challenge_hash for two challenges.
InitHash ==
    /\ cache = [h \in Hashes |-> NoFile]
    /\ todo = [t \in Threads |-> NoCalls]
    /\ FramesIdle
    /\ ExecIdle
    /\ AppIdle
    /\ \E first \in HashInputs, second \in HashInputs :
        pure_call = [fn |-> "get_challenge_hash",
                     first |-> first, second |-> second, ret |-> None]

SpecHash == InitHash /\ [][ApplyHash]_vars

(***************************************************************************)
(* Vocabulary of the properties.                                           *)
(***************************************************************************)
Returned(t) == frame[t].pc = "done"
Ended(t) == frame[t].pc \in {"done", "raised"}
InCall(t) == frame[t].pc # "idle"

\* The file holds one whole record, written by one writer.
HoldsRecord(file) ==
    /\ file.exists
    /\ Len(file.content) = NChunks
    /\ \A i \in 1..NChunks :
        /\ file.content[i] # Hole
        /\ file.content[i].part = i
        /\ file.content[i].doc = file.content[1].doc

RecordOf(file) == file.content[1].doc

\* The reply has a fence tagged python and, after it, three backquotes.
HasPythonBlock(text) ==
    \E i, j \in 1..Len(text) : i < j /\ text[i] = FencePy /\ text[j] \in {Fence, FencePy}

HasCode(r) == r.status \in {"solved", "failed"}

(***************************************************************************)
(* C1.  A call that finds a record for its fingerprint in the cache        *)
(* returns "solved" with exactly that record's final_code and              *)
(* attempts_taken, and calls neither the gateway nor the sandbox.          *)
(***************************************************************************)
C1_CacheHitReturnsRecord ==
    \A t \in Threads :
        (InCall(t) /\ HoldsRecord(ghost[t].seen)) =>
            /\ Returned(t)
            /\ frame[t].result.status = "solved"
            /\ frame[t].result.final_code = RecordOf(ghost[t].seen).final_code
            /\ frame[t].result.attempts_taken = RecordOf(ghost[t].seen).attempts_taken
            /\ ghost[t].llm_calls = 0
            /\ ghost[t].sandbox_runs = 0

\* A second call has found the record an earlier call stored on its second attempt.
C1_Witness ==
    \E t \in Threads :
        /\ Returned(t)
        /\ HoldsRecord(ghost[t].seen)
        /\ RecordOf(ghost[t].seen).attempts_taken = 2
        /\ frame[t].result.status = "solved"

C3_BoundedAttempts ==
    \A t \in Threads :
        (InCall(t) /\ frame[t].max_attempts >= 1) =>
            /\ ghost[t].sandbox_runs <= frame[t].max_attempts
            /\ ghost[t].llm_calls <= frame[t].max_attempts
            /\ (/\ Ended(t)
                /\ frame[t].max_attempts = 1
                /\ frame[t].last_execution_report.some
                /\ ~frame[t].last_execution_report.val.success) =>
                    /\ Returned(t)
                    /\ frame[t].result.status = "failed"
                    /\ frame[t].result.attempts_taken = 1

\* A call with max_attempts = 1 has run the sandbox once on failing code.
C3_Witness ==
    \E t \in Threads :
        /\ Returned(t)
        /\ frame[t].max_attempts = 1
        /\ ghost[t].sandbox_runs = 1
        /\ ghost[t].llm_calls = 1
        /\ frame[t].last_execution_report.some
        /\ ~frame[t].last_execution_report.val.success
        /\ frame[t].result.status = "failed"

(***************************************************************************)
(* C4.  A record is created once per fingerprint and never changed: once   *)
(* a fingerprint's file holds a record, no step writes to that file, also  *)
(* when several threads solve the same challenge at the same time.         *)
(***************************************************************************)
C4_RecordWrittenOnce ==
    [][\A h \in Hashes : HoldsRecord(cache[h]) => cache'[h] = cache[h]]_vars

(***************************************************************************)
(* C5.  A record is written as one atomic document: the file a thread      *)
(* reads in load_solved_challenge is absent or holds a whole record, never *)
(* an empty or partly written one.                                         *)
(***************************************************************************)
C5_ReaderSeesWholeRecord ==
    \A t \in Threads :
        InCall(t) => (~ghost[t].seen.exists \/ HoldsRecord(ghost[t].seen))

(***************************************************************************)
(* C6.  When call_gemini_api returns no text in attempt k, the call        *)
(* returns the error "Failed to get response from Gemini API." at once:    *)
(* attempt k's gateway call is the last one, the sandbox has run k - 1     *)
(* times, and nothing is written to the cache.                             *)
(***************************************************************************)
C6_GatewayAbort ==
    \A t \in Threads :
        (/\ frame[t].pc \notin {"idle", "gateway", "raised"}
         /\ ghost[t].llm_calls >= 1
         /\ Falsy(frame[t].gemini_response)) =>
            /\ Returned(t)
            /\ frame[t].result = ErrorResult(MsgGateway)
            /\ ghost[t].llm_calls = frame[t].attempt
            /\ ghost[t].sandbox_runs = frame[t].attempt - 1
            /\ ghost[t].saves = 0
            /\ cache[challenge_hash(frame[t])] = ghost[t].seen

\* The gateway gave no text in the first of two allowed attempts.
C6_Witness ==
    \E t \in Threads :
        /\ Returned(t)
        /\ ghost[t].llm_calls >= 1
        /\ Falsy(frame[t].gemini_response)
        /\ frame[t].attempt < frame[t].max_attempts
        /\ frame[t].result = ErrorResult(MsgGateway)

(***************************************************************************)
(* C7.  When the model's reply has no python-fenced code block, the call   *)
(* returns an error naming the missing block, which is neither the         *)
(* gateway's message nor a "failed" outcome; the sandbox is not run for    *)
(* that reply, no later attempt is made, nothing is written to the cache.  *)
(***************************************************************************)
C7_NoCodeBlockAbort ==
    \A t \in Threads :
        (/\ frame[t].pc \notin {"idle", "gateway"}
         /\ ~Falsy(frame[t].gemini_response)
         /\ ~HasPythonBlock(frame[t].gemini_response.val)) =>
            /\ Returned(t)
            /\ frame[t].result.status = "error"
            /\ frame[t].result.message = MsgNoCode
            /\ frame[t].result.message # MsgGateway
            /\ ghost[t].llm_calls = frame[t].attempt
            /\ ghost[t].sandbox_runs = frame[t].attempt - 1
            /\ ghost[t].saves = 0
            /\ cache[challenge_hash(frame[t])] = ghost[t].seen

\* A reply without a block has come in the first of two allowed attempts.
C7_Witness ==
    \E t \in Threads :
        /\ Returned(t)
        /\ ~Falsy(frame[t].gemini_response)
        /\ ~HasPythonBlock(frame[t].gemini_response.val)
        /\ frame[t].attempt < frame[t].max_attempts
        /\ frame[t].result = ErrorResult(MsgNoCode)

(***************************************************************************)
(* C8.  When attempt k's report has success = true, the call stores a      *)
(* record with final_code = the code run in attempt k and                  *)
(* attempts_taken = k, and returns "solved" with that code and k, where k  *)
(* is the number of gateway calls and of sandbox runs of the call.         *)
(***************************************************************************)
C8_SuccessIsStored ==
    \A t \in Threads :
        (/\ Ended(t)
         /\ frame[t].last_execution_report.some
         /\ frame[t].last_execution_report.val.success) =>
            /\ Returned(t)
            /\ frame[t].result =
                 SolvedResult(frame[t].last_generated_code.val, frame[t].attempt)
            /\ ghost[t].llm_calls = frame[t].attempt
            /\ ghost[t].sandbox_runs = frame[t].attempt
            /\ HoldsRecord(cache[challenge_hash(frame[t])])
            /\ RecordOf(cache[challenge_hash(frame[t])]).final_code =
                 frame[t].last_generated_code.val
            /\ RecordOf(cache[challenge_hash(frame[t])]).attempts_taken =
                 frame[t].attempt

(***************************************************************************)
(* C9.  When the report of the last allowed attempt has success = false,   *)
(* the call returns "failed" with attempts_taken = max_attempts, the code  *)
(* of that attempt, and the whole of that report: success, output,         *)
(* error_message, exception_type and test_results.                         *)
(***************************************************************************)
ReportKeys == {"success", "output", "error_message", "exception_type", "test_results"}

C9_FailedCarriesFullReport ==
    \A t \in Threads :
        (/\ Ended(t)
         /\ frame[t].last_execution_report.some
         /\ ~frame[t].last_execution_report.val.success
         /\ frame[t].attempt = frame[t].max_attempts) =>
            /\ Returned(t)
            /\ frame[t].result.status = "failed"
            /\ frame[t].result.attempts_taken = frame[t].max_attempts
            /\ frame[t].result.final_code = frame[t].last_generated_code.val
            /\ \A k \in ReportKeys :
                /\ k \in DOMAIN frame[t].result.error_details
                /\ frame[t].result.error_details[k] =
                     frame[t].last_execution_report.val[k]

(***************************************************************************)
(* C10.  Candidate code that never terminates cannot hang the loop: every  *)
(* call of solve_challenge_core comes to an end.                           *)
(***************************************************************************)
C10_EveryCallEnds ==
    \A t \in Threads : InCall(t) ~> Ended(t)

(***************************************************************************)
(* C11.  Temporary artifacts are removed unconditionally: when             *)
(* execute_code has returned, on any path (a run, runner output that is    *)
(* not JSON, a missing docker executable, a failure while the staging      *)
(* directory is filled), the staging directory of that invocation does not *)
(* exist.                                                                  *)
(***************************************************************************)
C11_StagingRemoved ==
    xc.pc = "returned" => ~staging[xc.unique_id].exists

(***************************************************************************)
(* C12.  Whatever goes wrong in setting up the run or reading it back,     *)
(* execute_code returns a report object with a boolean success and a       *)
(* test_results sequence, and a report it builds itself for a failure has  *)
(* success = false and a non-empty exception_type.                         *)
(***************************************************************************)
C12_AlwaysAReport ==
    xc.pc = "returned" =>
        /\ xc.ret.some
        /\ xc.ret.val.json = "object"
        /\ xc.ret.val.report.success \in BOOLEAN
        /\ DOMAIN xc.ret.val.report.test_results =
              1..Len(xc.ret.val.report.test_results)
        /\ (xc.ret.val.report \notin RunnerReports) =>
              /\ ~xc.ret.val.report.success
              /\ xc.ret.val.report.exception_type \notin {"", "None"}

(***************************************************************************)
(* C13.  A corrupted or unreadable cache record is a cache miss and is     *)
(* never raised to the caller: when the record file a call reads is not a  *)
(* well-formed SolvedChallenge (it cannot be decoded, or it is JSON        *)
(* without final_code, attempts_taken or solved_timestamp),                *)
(* load_solved_challenge returns nothing the caller takes for a record,    *)
(* and solve_challenge_core goes on as for an unsolved challenge: it       *)
(* raises nothing at the lookup and, given an attempt, calls the gateway.  *)
(***************************************************************************)
WellFormedRecord(file) ==
    /\ file.exists
    /\ Decodable(file.content)
    /\ SubmitKeys \subseteq DOMAIN json_load(file.content)

C13_CorruptRecordIsMiss ==
    \A t \in Threads :
        (InCall(t) /\ ghost[t].seen.exists /\ ~WellFormedRecord(ghost[t].seen)) =>
            /\ ~Truthy(load_solved_challenge(ghost[t].seen))
            /\ ~(frame[t].pc = "raised" /\ ghost[t].llm_calls = 0)
            /\ frame[t].max_attempts >= 1 => ghost[t].llm_calls >= 1

(***************************************************************************)
(* C14.  call_gemini_api returns None only after max_retries requests: it  *)
(* makes at most max_retries requests, returns the text of the first       *)
(* well-formed response without a further request, and answers every       *)
(* transport failure, malformed envelope and envelope without the content  *)
(* path (a first part without text included) with a retry while attempts   *)
(* remain, never with an exception.                                        *)
(***************************************************************************)
C14_GatewayRetriesEveryFailure ==
    \A t \in Threads :
        /\ ghost[t].requests <= max_retries
        /\ (frame[t].pc \in {"exec", "sandbox", "save_open", "save_write", "done"}
            /\ ghost[t].llm_calls >= 1) =>
              /\ frame[t].gemini_response.some =>
                    ghost[t].requests = frame[t].retry_attempt + 1
              /\ ~frame[t].gemini_response.some => ghost[t].requests = max_retries
        /\ ~(frame[t].pc = "raised" /\ frame[t].exception = "KeyError"
                                    /\ ghost[t].requests >= 1)

(***************************************************************************)
(* C15.  Bounded conversational history: at every point of a solve loop    *)
(* the history holds at most 3 turns, and they are the 3 most recently     *)
(* appended turns in the order they were appended; the turn list passed to *)
(* a gateway call has at most 3 turns and ends with the current attempt's  *)
(* user prompt.                                                            *)
(***************************************************************************)
LastTurns(turns, k) == SubSeq(turns, Max(1, Len(turns) - k + 1), Len(turns))

C15_HistoryBounded ==
    \A t \in Threads :
        InCall(t) =>
            /\ Len(frame[t].chat_history) <= 3
            /\ frame[t].chat_history = LastTurns(ghost[t].turns, 3)
            /\ frame[t].pc = "gateway" =>
                  /\ frame[t].chat_history # <<>>
                  /\ frame[t].chat_history[Len(frame[t].chat_history)] =
                        UserTurn(current_prompt(frame[t].challenge, frame[t].attempt,
                                                frame[t].last_generated_code,
                                                frame[t].last_execution_report))

\* The third attempt's gateway call is under way: five turns were appended, and
\* the history passed to the gateway has dropped the first two.
C15_Witness ==
    \E t \in Threads :
        /\ frame[t].pc = "gateway"
        /\ frame[t].attempt = 3
        /\ Len(ghost[t].turns) = 5
        /\ Len(frame[t].chat_history) = 3
        /\ frame[t].chat_history[1] = ghost[t].turns[3]

(***************************************************************************)
(* C16.  In every reachable state the status of every entry of the         *)
(* registry is one of submitted, processing, solved, failed, error.        *)
(***************************************************************************)
C16_StatusInEnum ==
    \A t \in Threads :
        ongoing_challenges[t].present =>
            ongoing_challenges[t].status \in
                {"submitted", "processing", "solved", "failed", "error"}

(***************************************************************************)
(* C17.  A status poll never observes a torn entry: when the polled entry  *)
(* has a terminal status (solved, failed, error) its result is present and *)
(* result.status is that status, and when it has a result its status is    *)
(* terminal.                                                               *)
(***************************************************************************)
C17_PollSeesNoTornEntry ==
    \A cl \in Clients :
        (/\ http[cl].polled.some
         /\ http[cl].polled.val.code = 200
         /\ http[cl].polled.val.challenge_id.kind = "registry") =>
            LET seen == http[cl].polled.val
            IN  /\ seen.status \in {"solved", "failed", "error"} =>
                      /\ seen.result.some
                      /\ seen.result.val.status = seen.status
                /\ seen.result.some => seen.status \in {"solved", "failed", "error"}

(***************************************************************************)
(* C18.  The "all passed" sentence never reaches the model: no repair      *)
(* prompt, built after a report with success = false (a report of a        *)
(* sandbox setup failure, with no test results, included), has "All        *)
(* provided tests passed." as its summary of the failures.                 *)
(***************************************************************************)
C18_NoAllPassedInRepairPrompt ==
    \A t \in Threads :
        \A i \in 1..Len(frame[t].chat_history) :
            (/\ frame[t].chat_history[i].role = "user"
             /\ frame[t].chat_history[i].text.template = "repair") =>
                frame[t].chat_history[i].text.summary # AllPassedSentence

(***************************************************************************)
(* C19.  Failure summary shape: for a result list with f >= 1 failing      *)
(* results and max_detailed >= 0, the summary is the detail blocks of the  *)
(* first min(f, max_detailed) failing results in their original order      *)
(* (test number, input, expected and actual, and the error when there is   *)
(* one), followed by one line "... N more tests failed." with              *)
(* N = f - max_detailed when f > max_detailed and by nothing otherwise;    *)
(* passing results do not appear.                                          *)
(***************************************************************************)
DetailBlock(r) ==
    << [line |-> "FAILED", test_number |-> r.test_number],
       [line |-> "Input", input |-> r.input],
       [line |-> "Expected, Actual", expected |-> r.expected_output,
        actual |-> r.actual_output] >>
    \o (IF r.error = "" THEN <<>> ELSE <<[line |-> "Error", error |-> r.error]>>)

RECURSIVE DetailBlocks(_, _)
DetailBlocks(results, n) ==
    IF n = 0 THEN <<>> ELSE DetailBlocks(results, n - 1) \o DetailBlock(results[n])

FailingOf(test_results) == SelectSeq(test_results, LAMBDA r : ~r.passed)

C19_SummaryShape ==
    (/\ pure_call.fn = "format_test_results_for_llm"
     /\ pure_call.ret.some
     /\ FailingOf(pure_call.test_results) # <<>>) =>
        LET failing == FailingOf(pure_call.test_results)
            f == Len(failing)
            summary == pure_call.ret.val
            details == SelectSeq(summary, LAMBDA l : l.line = "FAILED")
            more == SelectSeq(summary, LAMBDA l : l.line = "more tests failed")
        IN  /\ Len(details) = Min(f, pure_call.max_detailed)
            /\ \A i \in 1..Len(details) : details[i].test_number = failing[i].test_number
            /\ Len(more) = IF f > pure_call.max_detailed THEN 1 ELSE 0
            /\ \A i \in 1..Len(more) : more[i].count = f - pure_call.max_detailed
            /\ summary = DetailBlocks(failing, Min(f, pure_call.max_detailed)) \o more

\* Three results, the first passing, the second failing with an error, the third
\* failing: with max_detailed = 1 one block is rendered and one more is counted.
C19_Witness ==
    /\ pure_call.fn = "format_test_results_for_llm"
    /\ pure_call.ret.some
    /\ pure_call.max_detailed = 1
    /\ Len(pure_call.test_results) = 3
    /\ pure_call.test_results[1].passed
    /\ pure_call.test_results[2].error # ""
    /\ Len(FailingOf(pure_call.test_results)) = 2
    /\ Len(pure_call.ret.val) = 5

(***************************************************************************)
(* C20.  Fingerprint stability: the fingerprint of a challenge does not    *)
(* change when the keys of its test-case objects are given in another      *)
(* order, and two challenges whose descriptions differ, or one of whose    *)
(* tests differs in input or expected_output, hash different strings.      *)
(***************************************************************************)
PairsOf(tc) == {tc[i] : i \in 1..Len(tc)}

ValueOf(tc, key) == (CHOOSE p \in PairsOf(tc) : p[1] = key)[2]

SameUpToKeyOrder(a, b) ==
    /\ a.description = b.description
    /\ Len(a.test_cases) = Len(b.test_cases)
    /\ \A i \in 1..Len(a.test_cases) : PairsOf(a.test_cases[i]) = PairsOf(b.test_cases[i])

SomeTestDiffers(a, b) ==
    \E i \in 1..Min(Len(a.test_cases), Len(b.test_cases)) :
        \E key \in {"input", "expected_output"} :
            ValueOf(a.test_cases[i], key) # ValueOf(b.test_cases[i], key)

C20_FingerprintStable ==
    (pure_call.fn = "get_challenge_hash" /\ pure_call.ret.some) =>
        LET a == pure_call.first
            b == pure_call.second
        IN  /\ SameUpToKeyOrder(a, b) => pure_call.ret.val[1] = pure_call.ret.val[2]
            /\ (a.description # b.description \/ SomeTestDiffers(a, b)) =>
                  pure_call.ret.val[1] # pure_call.ret.val[2]

\* Two challenges that differ only in the key order of their test case have
\* been hashed.
C20_Witness ==
    /\ pure_call.fn = "get_challenge_hash"
    /\ pure_call.ret.some
    /\ pure_call.first # pure_call.second
    /\ pure_call.first.test_cases # <<>>
    /\ SameUpToKeyOrder(pure_call.first, pure_call.second)
    /\ pure_call.ret.val[1] = pure_call.ret.val[2]

(***************************************************************************)
(* C21.  A submission whose fingerprint has a record in the cache is       *)
(* answered at once with that record (status "solved", its final_code and  *)
(* attempts_taken, the identifier "cached_" + fingerprint): the registry   *)
(* gets no entry, no solver thread starts and no gateway or sandbox call   *)
(* is made.  A later status request for that identifier is answered with   *)
(* the same record.                                                        *)
(***************************************************************************)
C21_CachedSubmit ==
    [][\A cl \in Clients :
        /\ (/\ http[cl].request.some
            /\ ~http[cl].submitted.some
            /\ http'[cl].submitted.some
            /\ HoldsRecord(cache[get_challenge_hash(http[cl].request.val.challenge)])) =>
               LET h == get_challenge_hash(http[cl].request.val.challenge)
                   response == http'[cl].submitted.val
               IN  /\ response.code = 200
                   /\ response.status = "solved"
                   /\ response.challenge_id = CachedId(h)
                   /\ response.solution.final_code = RecordOf(cache[h]).final_code
                   /\ response.solution.attempts_taken = RecordOf(cache[h]).attempts_taken
                   /\ ongoing_challenges' = ongoing_challenges
                   /\ todo' = todo
                   /\ frame' = frame
                   /\ ghost' = ghost
        /\ (/\ http[cl].submitted.some
            /\ http[cl].submitted.val.code = 200
            /\ http'[cl].polled # http[cl].polled) =>
               /\ http'[cl].polled.val.code = 200
               /\ http'[cl].polled.val.challenge_id = http[cl].submitted.val.challenge_id
               /\ http'[cl].polled.val.solution = http[cl].submitted.val.solution
    ]_vars

(***************************************************************************)
(* C22.  The cache holds verified solutions only, and unsuccessful calls   *)
(* leave it alone: every step that changes a cache file is a step of       *)
(* save_solved_challenge in a call whose last execution report has         *)
(* success = true, for that call's fingerprint, and what it puts into the  *)
(* file is the record of that call's code and attempt; a call that has     *)
(* ended with status "failed" or "error" has made no save and the file of  *)
(* its fingerprint is as its lookup found it.                              *)
(***************************************************************************)
VerifiedWriter(t, h) ==
    /\ frame[t].pc \in {"save_open", "save_write"}
    /\ challenge_hash(frame[t]) = h
    /\ frame[t].last_execution_report.some
    /\ frame[t].last_execution_report.val.success

Unsuccessful(f) == f.pc = "done" /\ f.result.status \in {"failed", "error"}

C22_CacheOnlyVerified ==
    [][/\ \A h \in Hashes :
            cache'[h] # cache[h] =>
                \E t \in Threads :
                    /\ VerifiedWriter(t, h)
                    /\ cache'[h].exists
                    /\ \A i \in 1..Len(cache'[h].content) :
                         (\/ i > Len(cache[h].content)
                          \/ cache'[h].content[i] # cache[h].content[i]) =>
                            cache'[h].content[i] \in
                                {Hole,
                                 Chunk(solved_data(frame[t].challenge,
                                                   frame[t].last_generated_code.val,
                                                   frame[t].attempt), i)}
       /\ \A t \in Threads :
            Unsuccessful(frame'[t]) =>
                /\ ghost'[t].saves = 0
                /\ cache'[challenge_hash(frame'[t])] = ghost'[t].seen
    ]_vars

\* A call has ended "failed" on a challenge whose file an earlier call left
\* behind, cut short.
C22_Witness ==
    \E t \in Threads :
        /\ Unsuccessful(frame[t])
        /\ frame[t].result.status = "failed"
        /\ ghost[t].seen.exists
        /\ ghost[t].prev.status = "solved"

(***************************************************************************)
(* C23.  At every call of the gateway the turn list passed to it starts    *)
(* with a user turn, alternates user and model turns and ends with the     *)
(* prompt of the current attempt: in attempt 1 it is that prompt alone, in *)
(* every attempt k >= 2 it is the previous prompt, the previous reply and  *)
(* the current prompt.                                                     *)
(***************************************************************************)
Alternates(history) ==
    \A i \in 1..Len(history) :
        history[i].role = (IF i % 2 = 1 THEN "user" ELSE "model")

C23_HistoryWellFormed ==
    \A t \in Threads :
        frame[t].pc = "gateway" =>
            LET f == frame[t]
                history == f.chat_history
                k == f.attempt
                prompt == UserTurn(current_prompt(f.challenge, k, f.last_generated_code,
                                                  f.last_execution_report))
            IN  /\ history # <<>>
                /\ history[1].role = "user"
                /\ Alternates(history)
                /\ history[Len(history)] = prompt
                /\ k = 1 => history = <<prompt>>
                /\ k >= 2 =>
                      /\ Len(ghost[t].turns) = 2 * k - 1
                      /\ history = <<ghost[t].turns[2 * k - 3],
                                     ghost[t].turns[2 * k - 2],
                                     prompt>>
                      /\ ghost[t].turns[2 * k - 3].role = "user"
                      /\ ghost[t].turns[2 * k - 2].role = "model"

\* The gateway is called in attempt 3, after the window has dropped two turns.
C23_Witness ==
    \E t \in Threads :
        /\ frame[t].pc = "gateway"
        /\ frame[t].attempt = 3
        /\ Len(ghost[t].turns) = 5
        /\ Len(frame[t].chat_history) = 3

(***************************************************************************)
(* C24.  As claimed: a call with max_attempts >= 1 that returns, returns   *)
(* one of the outcomes of the loop (solved, failed, gateway error, no code *)
(* block) and not the trailing "unexpected state" value; a call returns    *)
(* the trailing value exactly when max_attempts < 1, and then it has made  *)
(* no gateway call, no sandbox run and no cache write.                     *)
(***************************************************************************)
InLoopMessages ==
    {"Challenge successfully solved.",
     "Challenge could not be solved within max attempts.",
     MsgGateway,
     MsgNoCode}

Trailing(f) == f.pc = "done" /\ f.result = ErrorResult(MsgUnexpected)

C24_TrailingIffNoAttempts ==
    \A t \in Threads :
        Returned(t) =>
            /\ frame[t].max_attempts >= 1 => frame[t].result.message \in InLoopMessages
            /\ Trailing(frame[t]) <=> frame[t].max_attempts < 1
            /\ Trailing(frame[t]) =>
                  /\ ghost[t].llm_calls = 0
                  /\ ghost[t].sandbox_runs = 0
                  /\ ghost[t].saves = 0

(***************************************************************************)
(* C24, amended.  A call whose cache lookup finds a record returns that    *)
(* record before the loop, whatever max_attempts is.  A call whose lookup  *)
(* finds none and which returns: with max_attempts >= 1 it returns one of  *)
(* the outcomes of the loop and not the trailing "unexpected state" value; *)
(* it returns the trailing value exactly when max_attempts < 1, and then   *)
(* it has made no gateway call, no sandbox run and no cache write.         *)
(***************************************************************************)
C24_TrailingReturn ==
    \A t \in Threads :
        Returned(t) =>
            IF Truthy(load_solved_challenge(ghost[t].seen))
            THEN /\ frame[t].result = CachedResult(load_solved_challenge(ghost[t].seen).val)
                 /\ ghost[t].llm_calls = 0
                 /\ ghost[t].sandbox_runs = 0
                 /\ ghost[t].saves = 0
            ELSE /\ frame[t].max_attempts >= 1 =>
                        frame[t].result.message \in InLoopMessages
                 /\ Trailing(frame[t]) <=> frame[t].max_attempts < 1
                 /\ Trailing(frame[t]) =>
                       /\ ghost[t].llm_calls = 0
                       /\ ghost[t].sandbox_runs = 0
                       /\ ghost[t].saves = 0
                       /\ cache[challenge_hash(frame[t])] = ghost[t].seen

\* A call with max_attempts = 0 has returned the trailing value; the file of
\* its fingerprint exists and holds no record.
C24_Witness ==
    \E t \in Threads :
        /\ Trailing(frame[t])
        /\ frame[t].max_attempts = 0
        /\ ghost[t].seen.exists

(***************************************************************************)
(* C25.  With the solver threads scheduled fairly, every registry entry    *)
(* whose call of solve_challenge_core has returned or raised eventually    *)
(* has a terminal status (solved, failed, error) and a result; and an      *)
(* entry that has a terminal status and a result never changes again.      *)
(***************************************************************************)
TerminalEntry(t) ==
    /\ ongoing_challenges[t].present
    /\ ongoing_challenges[t].status \in {"solved", "failed", "error"}
    /\ ongoing_challenges[t].result.some

C25_EventuallyTerminal ==
    /\ \A t \in Threads :
          (ongoing_challenges[t].present /\ Ended(t)) ~> TerminalEntry(t)
    /\ [][\A t \in Threads :
            TerminalEntry(t) => ongoing_challenges'[t] = ongoing_challenges[t]]_vars

\* The solver thread has ended and left a terminal entry whose result says
\* what its status says.
C25_Witness ==
    \E t \in Threads :
        /\ frame[t].pc = "finished"
        /\ TerminalEntry(t)
        /\ ongoing_challenges[t].result.val.status = ongoing_challenges[t].status

=============================================================================
